---------------------------- MODULE Spec2Model ----------------------------
(***************************************************************************)
(* A model of kle.py: the KLE layout parser (KLEKeyboard.from_json and the *)
(* add_key / add_row cursor), the key geometry (get_pos, set_pos,          *)
(* get_center, set_center, set_angle, mirror), the legend slots and the    *)
(* serializer (to_json).                                                   *)
(*                                                                         *)
(* Numbers.  Python numbers are modelled as exact rationals <<n, d>> in    *)
(* lowest terms with d > 0; the integer n is <<n, 1>>.  Floating point     *)
(* rounding is not modelled.  Angles are restricted to whole quarter       *)
(* turns, for which cmath.exp(i * radians) is an exact rational complex.   *)
(*                                                                         *)
(* Strings that the program splits or joins are sequences of one-character *)
(* strings; "\n" is the newline character.                                 *)
(*                                                                         *)
(* Objects.  KbProperties instances live in `heap`; a reference is the     *)
(* one-element tuple <<i>> of the instance's index, and None is <<>>.      *)
(***************************************************************************)
EXTENDS Integers, Sequences, FiniteSets, TLC

VARIABLES
    keyboard,   \* the KLEKeyboard instance
    heap,       \* the KbProperties instances, by reference
    props,      \* from_json: the pending KeyProperties
    pos,        \* from_json: the local counter pos
    layout,     \* the part of json_layout consumed so far
    pc,         \* where the program is: "rows", "items", "done", "raised", "api", "geom", "legend"
    raised,     \* the exception the last operation raised, or NoException
    result,     \* what the last query (to_json, get_legend_str) returned
    op,         \* the last operation and its arguments
    before,     \* the state before the last operation
    op2,        \* the operation before the last
    before2,    \* the state before the operation before the last
    steps       \* the number of operations so far

vars == <<keyboard, heap, props, pos, layout, pc, raised, result, op, before, op2, before2, steps>>

-----------------------------------------------------------------------------
(* Bounds of the model *)

\* the items (strings and objects) a parse consumes
MaxItems == 3
\* the top-level elements (row arrays and metadata objects) a parse consumes
MaxRows == 2
\* the calls of a run of direct add_key / add_row calls
MaxCalls == 3
\* the operations applied to the keys of a keyboard in a geometry run
MaxOps == 3
\* the newline-separated segments beyond max_legends that a legend text may have
MaxExtraSegments == 1

-----------------------------------------------------------------------------
(* Python values *)

None == <<>>

NL == "\n"

RECURSIVE GCD(_, _)
GCD(a, b) == IF b = 0 THEN a ELSE GCD(b, a % b)

Abs(i) == IF i < 0 THEN -i ELSE i

\* the number n/d (d # 0) in lowest terms
Norm(n, d) ==
    LET g == GCD(Abs(n), Abs(d))
        s == IF d < 0 THEN -1 ELSE 1
    IN  <<(s * n) \div g, (s * d) \div g>>

\* float(v), v * 1.0: the number v as a float
float(i) == <<i, 1>>

RAdd(a, b) == Norm(a[1] * b[2] + b[1] * a[2], a[2] * b[2])
RNeg(a) == <<-a[1], a[2]>>
RSub(a, b) == RAdd(a, RNeg(b))
RMul(a, b) == Norm(a[1] * b[1], a[2] * b[2])
RDiv(a, b) == Norm(a[1] * b[2], a[2] * b[1])

Zero == float(0)
One == float(1)
Half == RDiv(One, float(2))

\* complex numbers
Complex(re, im) == [real |-> re, imag |-> im]
CAdd(a, b) == Complex(RAdd(a.real, b.real), RAdd(a.imag, b.imag))
CSub(a, b) == Complex(RSub(a.real, b.real), RSub(a.imag, b.imag))
CMul(a, b) == Complex(RSub(RMul(a.real, b.real), RMul(a.imag, b.imag)),
                      RAdd(RMul(a.real, b.imag), RMul(a.imag, b.real)))
CScale(s, a) == Complex(RMul(s, a.real), RMul(s, a.imag))

\* degrees in a quarter turn: math.radians(90) = pi/2
QuarterTurn == 90

\* math.radians(degrees), in units of pi/2
radians(deg) == (deg[1] \div deg[2]) \div QuarterTurn

\* rotate_complex(radians) = cmath.exp(radians * 1j), radians in units of pi/2
rotate_complex(rad) ==
    CASE rad % 4 = 0 -> Complex(One, Zero)
      [] rad % 4 = 1 -> Complex(Zero, One)
      [] rad % 4 = 2 -> Complex(RNeg(One), Zero)
      [] rad % 4 = 3 -> Complex(Zero, RNeg(One))

Point(x, y) == [x |-> x, y |-> y]
PointSub(p, q) == Point(RSub(p.x, q.x), RSub(p.y, q.y))
PointDiv(p, s) == Point(RDiv(p.x, s), RDiv(p.y, s))

-----------------------------------------------------------------------------
(* Strings *)

\* text.split(sep): the segments of text between the occurrences of sep
RECURSIVE split(_, _)
split(text, sep) ==
    IF \A i \in 1..Len(text) : text[i] # sep
    THEN <<text>>
    ELSE LET i == CHOOSE j \in 1..Len(text) :
                      text[j] = sep /\ \A k \in 1..(j - 1) : text[k] # sep
         IN  <<SubSeq(text, 1, i - 1)>> \o split(SubSeq(text, i + 1, Len(text)), sep)

\* text.strip(ch): text without its leading and its trailing occurrences of ch
RECURSIVE lstrip(_, _)
lstrip(text, ch) ==
    IF text # <<>> /\ Head(text) = ch THEN lstrip(Tail(text), ch) ELSE text

RECURSIVE rstrip(_, _)
rstrip(text, ch) ==
    IF text # <<>> /\ text[Len(text)] = ch
    THEN rstrip(SubSeq(text, 1, Len(text) - 1), ch)
    ELSE text

strip(text, ch) == rstrip(lstrip(text, ch), ch)

-----------------------------------------------------------------------------
(* Exceptions *)

NoException == [type |-> "none", args |-> <<>>]

\* KLEParseError(message)
KLEParseError == [type |-> "KLEParseError", args |-> <<>>]

\* Exception(arg)
Exception(arg) == [type |-> "Exception", args |-> <<arg>>]

-----------------------------------------------------------------------------
(* class KbProperties *)

\* KbProperties(): the default instance
KbProperties ==
    [bg |-> "#ffffff", fg |-> "#000000", ghosted |-> FALSE, profile |-> None,
     text_alignment |-> None, font_primary |-> 3, font_secondary |-> 3,
     r |-> Zero, rx |-> Zero, ry |-> Zero]

Has(obj, field) == field \in DOMAIN obj

\* KbProperties.update(obj) on the instance p: the instance afterwards
KbProperties_update(p, obj) ==
    [bg             |-> IF Has(obj, "c") THEN obj["c"] ELSE p.bg,
     fg             |-> IF Has(obj, "t") THEN obj["t"] ELSE p.fg,
     ghosted        |-> IF Has(obj, "g") THEN obj["g"] ELSE p.ghosted,
     text_alignment |-> IF Has(obj, "a") THEN obj["a"] ELSE p.text_alignment,
     font_primary   |-> IF Has(obj, "f") THEN obj["f"] ELSE p.font_primary,
     font_secondary |-> IF Has(obj, "f2") THEN obj["f2"] ELSE p.font_secondary,
     profile        |-> IF Has(obj, "p") THEN obj["p"] ELSE p.profile,
     r              |-> IF Has(obj, "r") THEN float(obj["r"]) ELSE p.r,
     rx             |-> IF Has(obj, "rx") THEN float(obj["rx"]) ELSE p.rx,
     ry             |-> IF Has(obj, "ry") THEN float(obj["ry"]) ELSE p.ry]

-----------------------------------------------------------------------------
(* class KeyProperties *)

\* KeyProperties(): the constructor ignores x2, y2, w2, h2 and the flags
KeyProperties ==
    [x |-> Zero, y |-> Zero, w |-> One, h |-> One,
     x2 |-> None, y2 |-> None, w2 |-> None, h2 |-> None,
     rx |-> None, ry |-> None,
     stepped |-> FALSE, homing |-> FALSE, decal |-> FALSE]

\* KeyProperties.from_json(obj): a fresh instance with the fields obj carries
KeyProperties_from_json(obj) ==
    [x  |-> IF Has(obj, "x") THEN float(obj["x"]) ELSE KeyProperties.x,
     y  |-> IF Has(obj, "y") THEN float(obj["y"]) ELSE KeyProperties.y,
     w  |-> IF Has(obj, "w") THEN float(obj["w"]) ELSE KeyProperties.w,
     h  |-> IF Has(obj, "h") THEN float(obj["h"]) ELSE KeyProperties.h,
     x2 |-> IF Has(obj, "x2") THEN float(obj["x2"]) ELSE KeyProperties.x2,
     y2 |-> IF Has(obj, "y2") THEN float(obj["y2"]) ELSE KeyProperties.y2,
     w2 |-> IF Has(obj, "w2") THEN float(obj["w2"]) ELSE KeyProperties.w2,
     h2 |-> IF Has(obj, "h2") THEN float(obj["h2"]) ELSE KeyProperties.h2,
     rx |-> KeyProperties.rx, ry |-> KeyProperties.ry,
     decal   |-> IF Has(obj, "d") THEN obj["d"] ELSE KeyProperties.decal,
     stepped |-> IF Has(obj, "l") THEN obj["l"] ELSE KeyProperties.stepped,
     homing  |-> IF Has(obj, "n") THEN obj["n"] ELSE KeyProperties.homing]

\* the fields KeyProperties.to_json looks at, in its order
to_json_fields == <<"x", "y", "w", "h", "x2", "y2", "w2", "h2", "rx", "ry">>

\* KeyProperties.to_json(): the fields whose value is not None
KeyProperties_to_json(p) ==
    LET present == {i \in 1..Len(to_json_fields) : p[to_json_fields[i]] # None}
    IN  [f \in {to_json_fields[i] : i \in present} |-> p[f]]

-----------------------------------------------------------------------------
(* class KLEKey *)

\* KLEKey.LEGEND_MAP: the anchor of each legend slot
LEGEND_MAP ==
    [k \in 0..11 |->
        CASE k = 0 -> <<-1, -1>> [] k = 1 -> <<-1, 1>> [] k = 2 -> <<1, -1>>
          [] k = 3 -> <<1, 1>>   [] k = 4 -> <<-1, 2>> [] k = 5 -> <<1, 2>>
          [] k = 6 -> <<-1, 0>>  [] k = 7 -> <<1, 0>>  [] k = 8 -> <<0, -1>>
          [] k = 9 -> <<0, 0>>   [] k = 10 -> <<0, 1>> [] k = 11 -> <<0, 2>>]

max_legends == Cardinality(DOMAIN LEGEND_MAP)

\* a key that keeps the reference it was given instead of a copy
copy_alias(h, properties) == [heap |-> h, ref |-> properties]

\* copy.copy(properties): the heap with a new instance that has the fields of
\* properties, and the reference to it
copy_copy(h, properties) ==
    [heap |-> Append(h, h[properties[1]]), ref |-> <<Len(h) + 1>>]

\* KLEKey(ux, uy, uw, uh, text, properties, decal, spacing) on the heap h:
\* the heap afterwards, the exception raised and the key constructed
KLEKey(h, ux, uy, uw, uh, text, properties, decal, spacing) ==
    LET copied == IF properties = None
                  THEN [heap |-> Append(h, KbProperties), ref |-> <<Len(h) + 1>>]
                  ELSE copy_copy(h, properties)
        h1 == copied.heap
        own == copied.ref
        legends == split(text, NL)
    IN  IF Len(legends) > max_legends
        THEN [heap |-> h1, raised |-> Exception(KLEParseError), key |-> None]
        ELSE [heap |-> h1, raised |-> NoException,
              key |-> [_u_x |-> ux, _u_y |-> uy, _u_w |-> uw, _u_h |-> uh,
                       _spacing |-> spacing, decal |-> decal,
                       properties |-> own,
                       _r |-> h1[own[1]].r,
                       _u_rx |-> h1[own[1]].rx,
                       _u_ry |-> h1[own[1]].ry,
                       _legends |-> [k \in 0..(max_legends - 1) |->
                                        IF k < Len(legends) THEN legends[k + 1]
                                                            ELSE <<>>]]]

\* KLEKey.get_legend(key)
get_legend(key, slot) == key._legends[slot]

RECURSIVE legend_concat(_, _)
legend_concat(key, n) ==
    IF n = 0 THEN <<>>
    ELSE legend_concat(key, n - 1) \o key._legends[n - 1] \o <<NL>>

\* KLEKey.get_legend_str()
get_legend_str(key) == strip(legend_concat(key, max_legends), NL)

\* the properties w, h, r_rad
key_w(key) == RMul(key._spacing, key._u_w)
key_h(key) == RMul(key._spacing, key._u_h)
r_rad(key) == radians(key._r)

\* KLEKey.get_pos()
get_pos(key) ==
    LET rpos == Complex(key._u_rx, key._u_ry)
        p == CAdd(rpos, CMul(Complex(key._u_x, key._u_y), rotate_complex(r_rad(key))))
        scaled == CScale(key._spacing, p)
    IN  Point(scaled.real, scaled.imag)

\* a set_pos that turns the offset the same way get_pos does
set_pos_same_turn(key, x, y) ==
    LET u1 == PointDiv(Point(x, y), key._spacing)
        u2 == PointSub(u1, Point(key._u_rx, key._u_ry))
        u3 == CMul(Complex(u2.x, u2.y), rotate_complex(r_rad(key)))
    IN  [key EXCEPT !._u_x = u3.real, !._u_y = u3.imag]

\* KLEKey.set_pos(x, y): the key afterwards
set_pos(key, x, y) ==
    LET u1 == PointDiv(Point(x, y), key._spacing)
        u2 == PointSub(u1, Point(key._u_rx, key._u_ry))
        u3 == CMul(Complex(u2.x, u2.y), rotate_complex(-r_rad(key)))
    IN  [key EXCEPT !._u_x = u3.real, !._u_y = u3.imag]

\* 1/2 * (self.w + self.h*1j) * rotate_complex(self.r_rad)
half_diagonal(key) ==
    CMul(CScale(Half, Complex(key_w(key), key_h(key))), rotate_complex(r_rad(key)))

\* KLEKey.get_center()
get_center(key) ==
    LET p == get_pos(key)
        center == CAdd(Complex(p.x, p.y), half_diagonal(key))
    IN  Point(center.real, center.imag)

\* KLEKey.set_center(x, y): the key afterwards
set_center(key, x, y) ==
    LET corner == CSub(Complex(x, y), half_diagonal(key))
    IN  set_pos(key, corner.real, corner.imag)

\* KLEKey.set_angle(new_r): the key afterwards
set_angle(key, new_r) ==
    LET p == get_center(key)
    IN  set_center([key EXCEPT !._r = new_r], p.x, p.y)

\* the property u_y
u_y(key) == RAdd(key._u_y, key._u_ry)

\* KLEKey.get_properties()
get_properties(key) ==
    [KeyProperties EXCEPT !.x = key._u_x, !.y = key._u_y,
                          !.w = key._u_w, !.h = key._u_h,
                          !.rx = key._u_rx, !.ry = key._u_ry]

-----------------------------------------------------------------------------
(* class KLEKeyboard *)

\* KLEKeyboard(spacing): the instance and the heap holding its KbProperties.
\* The attribute _col does not exist before the first add_row.
KLEKeyboard(spacing) ==
    [keyboard |-> [keys |-> <<>>, col |-> 0, row |-> -1, global_props |-> <<1>>,
                   cur_x |-> Zero, cur_y |-> Zero, spacing |-> spacing,
                   metadata |-> <<>>, _col |-> None],
     heap |-> <<KbProperties>>]

\* an add_row that leaves cur_y alone
add_row_keep_y(kb) ==
    [kb EXCEPT !.cur_x = Zero, !._col = 0, !.row = @ + 1]

\* KLEKeyboard.add_row(): the keyboard afterwards
add_row(kb) ==
    [kb EXCEPT !.cur_x = Zero, !.cur_y = RAdd(@, One), !._col = 0, !.row = @ + 1]

\* KLEKeyboard.add_key(x, y, w, h, text, decal) on the heap hp: the keyboard
\* and the heap afterwards and the exception raised
add_key(kb, hp, x, y, w, h, text, decal) ==
    LET moved == [kb EXCEPT !.cur_x = RAdd(@, x), !.cur_y = RAdd(@, y)]
        made == KLEKey(hp, moved.cur_x, moved.cur_y, w, h, text,
                       kb.global_props, decal, kb.spacing)
    IN  IF made.raised # NoException
        THEN [keyboard |-> moved, heap |-> made.heap, raised |-> made.raised]
        ELSE [keyboard |-> [moved EXCEPT !.keys = Append(@, made.key),
                                         !.cur_x = RAdd(@, w),
                                         !.col = @ + 1],
              heap |-> made.heap, raised |-> NoException]

\* keyboard.metadata[key] = row[key] for every key of row
metadata_merge(metadata, row) ==
    [k \in DOMAIN metadata \cup DOMAIN row |->
        IF k \in DOMAIN row THEN row[k] ELSE metadata[k]]

\* the resets with the two cursors taken for each other
origin_reset_swapped(kb, obj) ==
    [kb EXCEPT !.cur_x = IF Has(obj, "ry") THEN Zero ELSE @,
               !.cur_y = IF Has(obj, "rx") THEN Zero ELSE @]

\* from_json, an object item: the cursor after the rx / ry resets
origin_reset(kb, obj) ==
    [kb EXCEPT !.cur_x = IF Has(obj, "rx") THEN Zero ELSE @,
               !.cur_y = IF Has(obj, "ry") THEN Zero ELSE @]

\* KLEKeyboard.to_json()
to_json(kb) ==
    (IF kb.metadata # <<>> THEN <<kb.metadata>> ELSE <<>>)
    \o [i \in 1..Len(kb.keys) |->
           <<KeyProperties_to_json(get_properties(kb.keys[i])),
             get_legend_str(kb.keys[i])>>]

\* a mirror that reflects the stored corner instead of the center
mirror_key_corner(key, axis) ==
    LET m == IF axis = "x" THEN Point(float(-1), float(1))
                           ELSE Point(float(1), float(-1))
        old_pos == get_pos(key)
        moved == set_pos(key, RMul(m.x, old_pos.x), RMul(m.y, old_pos.y))
    IN  [moved EXCEPT !._r = RNeg(moved._r)]

\* KLEKeyboard.mirror(axis), one key: the key afterwards
mirror_key(key, axis) ==
    LET m == IF axis = "x" THEN Point(float(-1), float(1))
                           ELSE Point(float(1), float(-1))
        old_center == get_center(key)
        moved == set_center(key, RMul(m.x, old_center.x), RMul(m.y, old_center.y))
    IN  set_angle(moved, RNeg(moved._r))

\* KLEKeyboard.mirror(axis): the keyboard afterwards
mirror(kb, axis) ==
    [kb EXCEPT !.keys = [i \in 1..Len(kb.keys) |-> mirror_key(kb.keys[i], axis)]]

-----------------------------------------------------------------------------
(* Inputs *)

\* text of the segments segs joined by newlines
RECURSIVE join(_)
join(segs) ==
    IF Len(segs) = 1 THEN segs[1]
    ELSE segs[1] \o <<NL>> \o join(Tail(segs))

\* n empty segments
Blank(n) == [i \in 1..n |-> <<>>]

\* spacing=19.0, the default of from_json and of KLEKeyboard
default_spacing == float(19)

spacings == {default_spacing, RDiv(float(3), float(2))}

\* legend texts of a parse: one, two (the first empty) and max_legends + 1 segments
ParseTexts ==
    {<<"A">>, <<NL, "B">>, join(Blank(max_legends + 1))}

\* object items of a parse
ParseObjects ==
    {[w |-> 2], [h |-> 2, x |-> 1, y |-> 1],
     [r |-> 90], [rx |-> 1], [ry |-> 1],
     [r |-> 180, rx |-> 2, ry |-> 2, d |-> TRUE, c |-> "#cccccc"]}

\* top-level metadata objects
MetadataObjects == {[name |-> "kb", author |-> "me"]}

-----------------------------------------------------------------------------
(* The state machine *)

Snapshot == [keyboard |-> keyboard, heap |-> heap, props |-> props]

\* the bookkeeping of every step: what ran, and the state it ran in
Log(name, arg) ==
    /\ op' = [name |-> name, arg |-> arg]
    /\ op2' = op
    /\ before' = Snapshot
    /\ before2' = before
    /\ steps' = steps + 1

Start(mode, made) ==
    /\ keyboard = made.keyboard
    /\ heap = made.heap
    /\ props = KeyProperties
    /\ pos = 0
    /\ layout = <<>>
    /\ pc = mode
    /\ raised = NoException
    /\ result = None
    /\ op = [name |-> "init", arg |-> None]
    /\ op2 = op
    /\ before = Snapshot
    /\ before2 = before
    /\ steps = 0

\* from_json: keyboard = KLEKeyboard(spacing); props = KeyProperties(); pos = 0
Init == Start("rows", KLEKeyboard(default_spacing))

\* the items consumed so far
RECURSIVE ItemCount(_)
ItemCount(rows) ==
    IF rows = <<>> THEN 0
    ELSE (IF Head(rows).type = "list" THEN Len(Head(rows).val) ELSE 0)
         + ItemCount(Tail(rows))

\* layout with item appended to its last row
Consumed(item) ==
    [layout EXCEPT ![Len(layout)].val = Append(@, item)]

\* from_json: a top-level element that is a dict
MetadataRow(row) ==
    /\ pc = "rows"
    /\ Len(layout) < MaxRows
    /\ keyboard' = [keyboard EXCEPT !.metadata = metadata_merge(@, row)]
    /\ layout' = Append(layout, [type |-> "dict", val |-> row])
    /\ Log("metadata", row)
    /\ UNCHANGED <<heap, props, pos, pc, raised, result>>

\* from_json: a top-level element that is a row; its items follow
BeginRow ==
    /\ pc = "rows"
    /\ Len(layout) < MaxRows
    /\ layout' = Append(layout, [type |-> "list", val |-> <<>>])
    /\ pc' = "items"
    /\ Log("row", None)
    /\ UNCHANGED <<keyboard, heap, props, pos, raised, result>>

\* a from_json that forgets to reset the pending properties after a key
reset_properties_keep(pending) == pending

\* from_json: props = KeyProperties(), "reset properties for next key"
reset_properties(pending) == KeyProperties

\* from_json: an item that is a str
StringItem(text) ==
    /\ pc = "items"
    /\ ItemCount(layout) < MaxItems
    /\ LET done == add_key(keyboard, heap, props.x, props.y, props.w, props.h,
                           text, props.decal)
       IN  /\ keyboard' = done.keyboard
           /\ heap' = done.heap
           /\ raised' = done.raised
           /\ IF done.raised # NoException
              THEN pc' = "raised" /\ UNCHANGED <<props, pos>>
              ELSE pc' = pc /\ props' = reset_properties(props) /\ pos' = pos + 1
    /\ layout' = Consumed([type |-> "str", val |-> text])
    /\ Log("string", text)
    /\ UNCHANGED result

\* from_json: an item that is a dict
ObjectItem(obj) ==
    /\ pc = "items"
    /\ ItemCount(layout) < MaxItems
    /\ props' = KeyProperties_from_json(obj)
    /\ heap' = [heap EXCEPT ![keyboard.global_props[1]] = KbProperties_update(@, obj)]
    /\ keyboard' = origin_reset(keyboard, obj)
    /\ layout' = Consumed([type |-> "dict", val |-> obj])
    /\ Log("object", obj)
    /\ UNCHANGED <<pos, pc, raised, result>>

\* from_json: the end of a row
EndRow ==
    /\ pc = "items"
    /\ keyboard' = add_row(keyboard)
    /\ pc' = "rows"
    /\ Log("add_row", None)
    /\ UNCHANGED <<heap, props, pos, layout, raised, result>>

\* from_json: return keyboard
Return ==
    /\ pc = "rows"
    /\ pc' = "done"
    /\ Log("return", None)
    /\ UNCHANGED <<keyboard, heap, props, pos, layout, raised, result>>

\* to_json() on the keyboard from_json returned
ToJson ==
    /\ pc = "done"
    /\ op.name # "to_json"
    /\ result' = to_json(keyboard)
    /\ Log("to_json", None)
    /\ UNCHANGED <<keyboard, heap, props, pos, layout, pc, raised>>

Next ==
    \/ \E row \in MetadataObjects : MetadataRow(row)
    \/ BeginRow
    \/ \E text \in ParseTexts : StringItem(text)
    \/ \E obj \in ParseObjects : ObjectItem(obj)
    \/ EndRow
    \/ Return
    \/ ToJson

Spec == Init /\ [][Next]_vars

-----------------------------------------------------------------------------
(* Direct calls of add_key and add_row on a keyboard *)

InitApi == \E s \in spacings : Start("api", KLEKeyboard(s))

\* one call keyboard.add_key(x, y, w, h, text); the caller catches what it raises
ApiAddKey(x, y, w, h, text) ==
    /\ pc = "api"
    /\ steps < MaxCalls
    /\ LET done == add_key(keyboard, heap, x, y, w, h, text, FALSE)
       IN  /\ keyboard' = done.keyboard
           /\ heap' = done.heap
           /\ raised' = done.raised
    /\ Log("add_key", [x |-> x, y |-> y, w |-> w, h |-> h, text |-> text])
    /\ UNCHANGED <<props, pos, layout, pc, result>>

\* one call keyboard.add_row()
ApiAddRow ==
    /\ pc = "api"
    /\ steps < MaxCalls
    /\ keyboard' = add_row(keyboard)
    /\ raised' = NoException
    /\ Log("add_row", None)
    /\ UNCHANGED <<heap, props, pos, layout, pc, result>>

NextApi ==
    \/ \E x \in {Zero, One}, y \in {Zero, One}, w \in {One, float(2)}, text \in ParseTexts :
          ApiAddKey(x, y, w, One, text)
    \/ ApiAddRow

SpecApi == InitApi /\ [][NextApi]_vars

-----------------------------------------------------------------------------
(* One key made from a legend text, and its legend queries *)

\* the legend texts: up to max_legends + MaxExtraSegments segments, each
\* empty or "a"
LegendSegments ==
    UNION {[1..n -> {<<>>, <<"a">>}] : n \in 1..(max_legends + MaxExtraSegments)}

InitLegend == Start("legend", KLEKeyboard(default_spacing))

\* keyboard.add_key(text=text), text the segments segs joined by newlines
LegendKey(segs) ==
    /\ pc = "legend"
    /\ steps = 0
    /\ LET done == add_key(keyboard, heap, Zero, Zero, One, One, join(segs), FALSE)
       IN  /\ keyboard' = done.keyboard
           /\ heap' = done.heap
           /\ raised' = done.raised
    /\ Log("add_key", [segs |-> segs, text |-> join(segs)])
    /\ UNCHANGED <<props, pos, layout, pc, result>>

\* key.get_legend(slot) on the key made; get_legend asserts slot in LEGEND_MAP
GetLegend(slot) ==
    /\ pc = "legend"
    /\ Len(keyboard.keys) = 1
    /\ op.name = "add_key"
    /\ slot \in DOMAIN LEGEND_MAP
    /\ result' = get_legend(keyboard.keys[1], slot)
    /\ Log("get_legend", slot)
    /\ UNCHANGED <<keyboard, heap, props, pos, layout, pc, raised>>

\* key.get_legend_str() on the key made
GetLegendStr ==
    /\ pc = "legend"
    /\ Len(keyboard.keys) = 1
    /\ op.name = "add_key"
    /\ result' = get_legend_str(keyboard.keys[1])
    /\ Log("get_legend_str", None)
    /\ UNCHANGED <<keyboard, heap, props, pos, layout, pc, raised>>

NextLegend ==
    \/ (steps = 0 /\ \E segs \in LegendSegments : LegendKey(segs))
    \/ \E slot \in {0, 1, 11} : GetLegend(slot)
    \/ GetLegendStr

SpecLegend == InitLegend /\ [][NextLegend]_vars

-----------------------------------------------------------------------------
(* The geometry of the keys of a keyboard *)

\* rotation settings of the first key
GeomObjects ==
    {<<>>, [r |-> 90], [r |-> 180, rx |-> 1], [r |-> 270, rx |-> 2, ry |-> 1],
     [r |-> -90, ry |-> 3]}

\* rotation settings of the second key
GeomObject2 == [r |-> 90, rx |-> 1, ry |-> 1]

\* points in drawing space
GeomPoints == {Point(float(19), float(-38)), Point(Half, float(3))}

\* a keyboard of two keys: global_props.update(o1), add_key(x, x, 2, 1),
\* global_props.update(GeomObject2), add_key(0, 0, 1, 2)
InitGeom ==
    \E s \in spacings, o1 \in GeomObjects, x \in {Zero, One} :
        LET made == KLEKeyboard(s)
            w == float(2)
            g == made.keyboard.global_props[1]
            h1 == [made.heap EXCEPT ![g] = KbProperties_update(@, o1)]
            k1 == add_key(made.keyboard, h1, x, x, w, One, <<"A">>, FALSE)
            h2 == [k1.heap EXCEPT ![g] = KbProperties_update(@, GeomObject2)]
            k2 == add_key(k1.keyboard, h2, Zero, Zero, One, float(2), <<"B">>, FALSE)
        IN  Start("geom", [keyboard |-> k2.keyboard, heap |-> k2.heap])

\* keyboard.keys[i].set_pos(p.x, p.y)
SetPos(i, p) ==
    /\ pc = "geom"
    /\ steps < MaxOps
    /\ i \in DOMAIN keyboard.keys
    /\ keyboard' = [keyboard EXCEPT !.keys[i] = set_pos(@, p.x, p.y)]
    /\ Log("set_pos", [i |-> i, p |-> p])
    /\ UNCHANGED <<heap, props, pos, layout, pc, raised, result>>

\* p = keyboard.keys[i].get_pos(); keyboard.keys[i].set_pos(p.x, p.y)
Reposition(i) ==
    /\ pc = "geom"
    /\ steps < MaxOps
    /\ i \in DOMAIN keyboard.keys
    /\ LET p == get_pos(keyboard.keys[i])
       IN  keyboard' = [keyboard EXCEPT !.keys[i] = set_pos(@, p.x, p.y)]
    /\ Log("reposition", [i |-> i])
    /\ UNCHANGED <<heap, props, pos, layout, pc, raised, result>>

\* keyboard.keys[i].set_angle(new_r)
SetAngle(i, new_r) ==
    /\ pc = "geom"
    /\ steps < MaxOps
    /\ i \in DOMAIN keyboard.keys
    /\ keyboard' = [keyboard EXCEPT !.keys[i] = set_angle(@, new_r)]
    /\ Log("set_angle", [i |-> i, r |-> new_r])
    /\ UNCHANGED <<heap, props, pos, layout, pc, raised, result>>

\* keyboard.mirror(axis)
Mirror(axis) ==
    /\ pc = "geom"
    /\ steps < MaxOps
    /\ keyboard' = mirror(keyboard, axis)
    /\ Log("mirror", [axis |-> axis])
    /\ UNCHANGED <<heap, props, pos, layout, pc, raised, result>>

NextGeom ==
    \/ \E i \in {1, 2}, p \in GeomPoints : SetPos(i, p)
    \/ \E i \in {1, 2} : Reposition(i)
    \/ \E new_r \in {float(0), float(90)} : SetAngle(1, new_r)
    \/ \E axis \in {"x", "y"} : Mirror(axis)

SpecGeom == InitGeom /\ [][NextGeom]_vars

-----------------------------------------------------------------------------
(* The input a parse has consumed, as the properties below speak of it *)

\* the row arrays consumed so far
RowArrays == SelectSeq(layout, LAMBDA e : e.type = "list")

RECURSIVE Concat(_)
Concat(rows) == IF rows = <<>> THEN <<>> ELSE Head(rows).val \o Concat(Tail(rows))

\* the items consumed so far, in scan order
Scanned == Concat(RowArrays)

StringCount(items) == Cardinality({p \in DOMAIN items : items[p].type = "str"})

\* the place in the items sc of the i-th string item
PlaceOf(sc, i) ==
    CHOOSE p \in DOMAIN sc :
        sc[p].type = "str" /\ StringCount(SubSeq(sc, 1, p)) = i

\* the object item right before place p of sc, if the item there is one
PendingObject(sc, p) ==
    IF p > 1 /\ sc[p - 1].type = "dict" THEN sc[p - 1].val ELSE <<>>

\* the value of field in the last object item of sc before place p that
\* carries it
LastValue(sc, p, field, default) ==
    LET carriers == {q \in 1..(p - 1) : sc[q].type = "dict" /\ Has(sc[q].val, field)}
    IN  IF carriers = {} THEN default
        ELSE LET last == CHOOSE q \in carriers : \A q2 \in carriers : q2 <= q
             IN  <<sc[last].val[field], 1>>

Parsing == pc \in {"rows", "items", "done", "raised"}

\* the slots of a key made from text
SlotsOf(text) ==
    [k \in 0..11 |-> IF k < Len(split(text, NL)) THEN split(text, NL)[k + 1] ELSE <<>>]

-----------------------------------------------------------------------------
(* C1: while from_json has not raised, the keyboard holds exactly one key  *)
(* per string item consumed, in input order, and each key's unit w and h   *)
(* are those of the object item right before its string (the last object   *)
(* after the previous string), or 1 where there is none or it omits the    *)
(* field.                                                                  *)
C1_OneKeyPerString ==
    (Parsing /\ pc # "raised") =>
        LET sc == Scanned
        IN  /\ Len(keyboard.keys) = StringCount(sc)
            /\ \A i \in 1..Len(keyboard.keys) :
              LET p == PlaceOf(sc, i)
                  obj == PendingObject(sc, p)
                  key == keyboard.keys[i]
              IN  /\ key._legends = SlotsOf(sc[p].val)
                  /\ key._u_w = (IF Has(obj, "w") THEN <<obj["w"], 1>> ELSE <<1, 1>>)
                  /\ key._u_h = (IF Has(obj, "h") THEN <<obj["h"], 1>> ELSE <<1, 1>>)

\* a returned keyboard with a key whose string follows two object items, the
\* first carrying w and the second not, and a key after another key
C1_Witness ==
    /\ pc = "done"
    /\ LET sc == Scanned
       IN  \E p \in DOMAIN sc :
              /\ p > 2
              /\ sc[p].type = "str"
              /\ sc[p - 1].type = "dict" /\ ~Has(sc[p - 1].val, "w")
              /\ sc[p - 2].type = "dict" /\ Has(sc[p - 2].val, "w")

(* C2: in every state of a parse, each key's captured angle and rotation   *)
(* origin (the key's own fields and its private KbProperties copy) are the *)
(* values of the most recent object item carrying r, rx, ry before the     *)
(* key's string in scan order, across rows, or 0 if there is none.         *)
C2_CapturedRotation ==
    Parsing =>
        \A i \in 1..Len(keyboard.keys) :
            LET sc == Scanned
                p == PlaceOf(sc, i)
                key == keyboard.keys[i]
                own == heap[key.properties[1]]
            IN  /\ key._r = LastValue(sc, p, "r", <<0, 1>>)
                /\ key._u_rx = LastValue(sc, p, "rx", <<0, 1>>)
                /\ key._u_ry = LastValue(sc, p, "ry", <<0, 1>>)
                /\ own.r = key._r /\ own.rx = key._u_rx /\ own.ry = key._u_ry

\* a key that captured an angle set in an earlier row, and an object item
\* after the key that set another angle
C2_Witness ==
    /\ Parsing
    /\ Len(RowArrays) = 2
    /\ \E q \in DOMAIN RowArrays[1].val :
          RowArrays[1].val[q].type = "dict" /\ Has(RowArrays[1].val[q].val, "r")
    /\ StringCount(RowArrays[1].val) = 0
    /\ Len(keyboard.keys) = 1
    /\ keyboard.keys[1]._r = <<90, 1>>
    /\ heap[keyboard.global_props[1]].r = <<180, 1>>

(* C4: an object item with rx sets cur_x to 0, and the next key, when only *)
(* object items lie between, is placed at its own x delta from 0; an       *)
(* object item with ry and no rx sets cur_y to 0 and leaves cur_x; an      *)
(* object item with neither leaves both.                                   *)
C4_OriginResets ==
    /\ (Parsing /\ op.name = "object") =>
          /\ Has(op.arg, "rx") => keyboard.cur_x = <<0, 1>>
          /\ (Has(op.arg, "ry") /\ ~Has(op.arg, "rx")) =>
                /\ keyboard.cur_y = <<0, 1>>
                /\ keyboard.cur_x = before.keyboard.cur_x
          /\ (~Has(op.arg, "ry") /\ ~Has(op.arg, "rx")) =>
                /\ keyboard.cur_y = before.keyboard.cur_y
                /\ keyboard.cur_x = before.keyboard.cur_x
    /\ (/\ Parsing /\ op.name = "string" /\ raised = NoException
        /\ op2.name = "object" /\ Has(op2.arg, "rx")) =>
          keyboard.keys[Len(keyboard.keys)]._u_x =
              (IF Has(op2.arg, "x") THEN <<op2.arg["x"], 1>> ELSE <<0, 1>>)
    /\ Parsing =>
          \A i \in 1..Len(keyboard.keys) :
              LET sc == Scanned
                  p == PlaceOf(sc, i)
                  obj == PendingObject(sc, p)
              IN  (\E q \in 1..(p - 1) :
                      /\ \A q2 \in q..(p - 1) : sc[q2].type = "dict"
                      /\ Has(sc[q].val, "rx"))
                  => keyboard.keys[i]._u_x =
                         (IF Has(obj, "x") THEN <<obj["x"], 1>> ELSE <<0, 1>>)

\* a key placed right after an object item with rx that found the column
\* cursor away from 0
C4_Witness ==
    /\ Parsing /\ op.name = "string" /\ raised = NoException
    /\ op2.name = "object" /\ Has(op2.arg, "rx")
    /\ before2.keyboard.cur_x # <<0, 1>>

\* an object item with ry and no rx that found both cursors away from 0
C4_WitnessRy ==
    /\ Parsing /\ op.name = "object"
    /\ Has(op.arg, "ry") /\ ~Has(op.arg, "rx")
    /\ before.keyboard.cur_x # <<0, 1>> /\ before.keyboard.cur_y # <<0, 1>>

NoYDeltas ==
    LET sc == Scanned
    IN  \A p \in DOMAIN sc :
            sc[p].type = "dict" => (~Has(sc[p].val, "y") /\ ~Has(sc[p].val, "ry"))

\* the keys made by the strings of the k-th row array
KeysOfRow(k) ==
    LET earlier == StringCount(Concat(SubSeq(RowArrays, 1, k - 1)))
    IN  (earlier + 1)..(earlier + StringCount(RowArrays[k].val))

(* C5: the end of a row, empty or not, sets cur_x to 0 and adds 1 to cur_y *)
(* and to the row counter; after a parse of n row arrays without y deltas  *)
(* and ry items the row counter is n - 1 and the keys of the k-th row      *)
(* (from 0) have unit y k.                                                 *)
C5_EndOfRow ==
    /\ (Parsing /\ op.name = "add_row") =>
          /\ keyboard.cur_x = <<0, 1>>
          /\ keyboard.cur_y = RAdd(before.keyboard.cur_y, <<1, 1>>)
          /\ keyboard.row = before.keyboard.row + 1
    /\ (pc = "done" /\ NoYDeltas) =>
          /\ keyboard.row = Len(RowArrays) - 1
          /\ \A k \in 1..Len(RowArrays) :
                \A i \in KeysOfRow(k) :
                    /\ keyboard.keys[i]._u_y = <<k - 1, 1>>
                    /\ u_y(keyboard.keys[i]) = <<k - 1, 1>>

\* a returned keyboard whose first row array was empty and whose second row
\* array made a key
C5_Witness ==
    /\ pc = "done" /\ NoYDeltas
    /\ Len(RowArrays) = 2
    /\ RowArrays[1].val = <<>>
    /\ KeysOfRow(2) # {}

-----------------------------------------------------------------------------
\* the positional fields of a key that are not at their default
NonDefaultFields(key) ==
    LET all == [x |-> key._u_x, y |-> key._u_y, w |-> key._u_w, h |-> key._u_h]
        dflt == [x |-> <<0, 1>>, y |-> <<0, 1>>, w |-> <<1, 1>>, h |-> <<1, 1>>]
    IN  [f \in {g \in {"x", "y", "w", "h"} : all[g] # dflt[g]} |-> all[f]]

\* text without its trailing newlines
RECURSIVE TrimEnd(_)
TrimEnd(text) ==
    IF text # <<>> /\ text[Len(text)] = "\n"
    THEN TrimEnd(SubSeq(text, 1, Len(text) - 1))
    ELSE text

\* the 12 slot texts of a key joined by newlines, trailing empty lines trimmed
RECURSIVE JoinSlots(_, _)
JoinSlots(key, n) ==
    IF n = 0 THEN key._legends[0]
    ELSE JoinSlots(key, n - 1) \o <<"\n">> \o key._legends[n]

LegendLine(key) == TrimEnd(JoinSlots(key, 11))

(* C8: to_json returns the metadata object first iff metadata is not       *)
(* empty, then one [propertiesObject, legendString] pair per key in        *)
(* creation order, each propertiesObject holding only the positional       *)
(* fields that are not at their default (empty for x=0, y=0, w=1, h=1).    *)
C8_ToJsonNonDefault ==
    (pc = "done" /\ op.name = "to_json") =>
        LET off == IF keyboard.metadata # <<>> THEN 1 ELSE 0
        IN  /\ Len(result) = off + Len(keyboard.keys)
            /\ off = 1 => result[1] = keyboard.metadata
            /\ \A i \in 1..Len(keyboard.keys) :
                  /\ result[off + i][1] = NonDefaultFields(keyboard.keys[i])
                  /\ result[off + i][2] = get_legend_str(keyboard.keys[i])

(* C8, its shape alone: the metadata object first iff metadata is not      *)
(* empty, then one pair per key in creation order, the second of each pair *)
(* the key's legend string.                                                *)
C8_ToJsonShape ==
    (pc = "done" /\ op.name = "to_json") =>
        LET off == IF keyboard.metadata # <<>> THEN 1 ELSE 0
        IN  /\ Len(result) = off + Len(keyboard.keys)
            /\ off = 1 => result[1] = keyboard.metadata
            /\ \A i \in 1..Len(keyboard.keys) :
                  /\ Len(result[off + i]) = 2
                  /\ result[off + i][2] = get_legend_str(keyboard.keys[i])

-----------------------------------------------------------------------------
\* the legend text of slot k of a key made from the segments segs
SegmentAt(segs, k) == IF k < Len(segs) THEN segs[k + 1] ELSE <<>>

(* C3: making a key from a legend text of more than 12 newline-separated   *)
(* segments raises the legend-overflow error KLEParseError; a text of at   *)
(* most 12 segments is accepted and get_legend(i) returns the i-th         *)
(* segment for every slot i.                                               *)
C3_LegendOverflowError ==
    /\ (pc = "legend" /\ op.name = "add_key") =>
          IF Len(op.arg.segs) > 12
          THEN raised.type = "KLEParseError" /\ keyboard.keys = <<>>
          ELSE raised = NoException /\ Len(keyboard.keys) = 1
    /\ (pc = "legend" /\ op.name = "get_legend") =>
          result = SegmentAt(op2.arg.segs, op.arg)

(* C3, what the code does: a text of more than 12 segments raises, and the *)
(* exception is a plain Exception that carries a KLEParseError as its      *)
(* argument; a text of at most 12 segments is accepted and get_legend(i)   *)
(* returns the i-th segment.                                               *)
C3_WrappedError ==
    /\ (pc = "legend" /\ op.name = "add_key") =>
          IF Len(op.arg.segs) > 12
          THEN /\ raised.type = "Exception"
               /\ raised.args[1].type = "KLEParseError"
               /\ keyboard.keys = <<>>
          ELSE raised = NoException /\ Len(keyboard.keys) = 1
    /\ (pc = "legend" /\ op.name = "get_legend") =>
          result = SegmentAt(op2.arg.segs, op.arg)

(* C9: get_legend_str returns the 12 slot texts joined by newlines in slot *)
(* order with only the trailing empty lines trimmed, so that splitting it  *)
(* on newline puts every non-empty legend back at its slot.                *)
C9_LegendStrKeepsSlots ==
    (pc = "legend" /\ op.name = "get_legend_str") =>
        /\ result = LegendLine(keyboard.keys[1])
        /\ \A k \in 0..11 :
              keyboard.keys[1]._legends[k] # <<>> =>
                  /\ Len(split(result, "\n")) > k
                  /\ split(result, "\n")[k + 1] = keyboard.keys[1]._legends[k]

(* C10: an add_key call that raises leaves the key sequence, the col       *)
(* counter and the cursor as they were, so that a valid add_key right      *)
(* after it places its key where it would have without the failing call.   *)
C10_FailedAddKeyNoEffect ==
    /\ (pc = "api" /\ op.name = "add_key" /\ raised # NoException) =>
          /\ keyboard.keys = before.keyboard.keys
          /\ keyboard.col = before.keyboard.col
          /\ keyboard.cur_x = before.keyboard.cur_x
          /\ keyboard.cur_y = before.keyboard.cur_y
    /\ (/\ pc = "api" /\ op.name = "add_key" /\ raised = NoException
        /\ op2.name = "add_key" /\ Len(before.keyboard.keys) = Len(before2.keyboard.keys)) =>
          LET key == keyboard.keys[Len(keyboard.keys)]
          IN  /\ key._u_x = RAdd(before2.keyboard.cur_x, op.arg.x)
              /\ key._u_y = RAdd(before2.keyboard.cur_y, op.arg.y)

(* C10, what the code does: an add_key call that raises leaves the key     *)
(* sequence and the col counter as they were and moves the cursor by the   *)
(* call's x and y.                                                         *)
C10_FailedAddKeyMovesCursor ==
    (pc = "api" /\ op.name = "add_key" /\ raised # NoException) =>
        /\ keyboard.keys = before.keyboard.keys
        /\ keyboard.col = before.keyboard.col
        /\ keyboard.cur_x = RAdd(before.keyboard.cur_x, op.arg.x)
        /\ keyboard.cur_y = RAdd(before.keyboard.cur_y, op.arg.y)

-----------------------------------------------------------------------------
\* the point (x, y) turned by the angle deg, a whole number of quarter turns
Turned(x, y, deg) ==
    LET q == ((deg[1] \div deg[2]) \div 90) % 4
    IN  CASE q = 0 -> <<x, y>>
          [] q = 1 -> <<RNeg(y), x>>
          [] q = 2 -> <<RNeg(x), RNeg(y)>>
          [] q = 3 -> <<y, RNeg(x)>>

Reflected(p, axis) ==
    IF axis = "x" THEN [x |-> RNeg(p.x), y |-> p.y] ELSE [x |-> p.x, y |-> RNeg(p.y)]

(* C7: mirror(axis) moves every key's center to its reflection (x negated  *)
(* for "x", y negated for "y") and negates its angle; mirror(axis) twice   *)
(* with the same axis restores every key's get_center() and r.             *)
C7_MirrorInvolution ==
    /\ (pc = "geom" /\ op.name = "mirror") =>
          \A i \in DOMAIN keyboard.keys :
              /\ get_center(keyboard.keys[i])
                     = Reflected(get_center(before.keyboard.keys[i]), op.arg.axis)
              /\ keyboard.keys[i]._r = RNeg(before.keyboard.keys[i]._r)
    /\ (pc = "geom" /\ op.name = "mirror" /\ op2.name = "mirror"
                    /\ op.arg.axis = op2.arg.axis) =>
          \A i \in DOMAIN keyboard.keys :
              /\ get_center(keyboard.keys[i]) = get_center(before2.keyboard.keys[i])
              /\ keyboard.keys[i]._r = before2.keyboard.keys[i]._r

\* two mirrors on the same axis of a keyboard with a key turned a quarter
\* about an origin away from (0, 0), its center off both axes
C7_Witness ==
    /\ pc = "geom" /\ op.name = "mirror" /\ op2.name = "mirror"
    /\ op.arg.axis = op2.arg.axis
    /\ \E i \in DOMAIN keyboard.keys :
          LET key == keyboard.keys[i]
          IN  /\ key._r = <<90, 1>>
              /\ key._u_rx # <<0, 1>> /\ key._u_ry # <<0, 1>>
              /\ get_center(key).x # <<0, 1>> /\ get_center(key).y # <<0, 1>>
              /\ before.keyboard.keys[i]._r = <<-90, 1>>

=============================================================================
